---- MODULE Spec2Model ----
(***************************************************************************)
(* Model of agent-of-the-king.py: the ArkhamDB card cache (CARDS,          *)
(* NAME_INDEX, NAME_KEYS), the query parser, the three-stage matcher, the  *)
(* deck composer with its pagination, and the on_message / reload_cards    *)
(* coroutines as they interleave on the asyncio event loop.                *)
(*                                                                         *)
(* Python strings are sequences of one-character strings.                  *)
(***************************************************************************)
EXTENDS Integers, Sequences, FiniteSets, TLC

\* ------------------------------------------------------------------------
\* Strings
\* ------------------------------------------------------------------------
\* the characters up to U+00FF that str.lower() changes: A-Z, U+00C0..U+00D6
\* and U+00D8..U+00DE
UpperChars == <<"A","B","C","D","E","F","G","H","I","J","K","L","M",
                "N","O","P","Q","R","S","T","U","V","W","X","Y","Z",
                "À","Á","Â","Ã","Ä","Å","Æ","Ç","È","É","Ê","Ë","Ì","Í","Î",
                "Ï","Ð","Ñ","Ò","Ó","Ô","Õ","Ö","Ø","Ù","Ú","Û","Ü","Ý","Þ">>

\* what str.lower() changes them to, in the same order
LowerChars == <<"a","b","c","d","e","f","g","h","i","j","k","l","m",
                "n","o","p","q","r","s","t","u","v","w","x","y","z",
                "à","á","â","ã","ä","å","æ","ç","è","é","ê","ë","ì","í","î",
                "ï","ð","ñ","ò","ó","ô","õ","ö","ø","ù","ú","û","ü","ý","þ">>

DigitChars == <<"0","1","2","3","4","5","6","7","8","9">>

Range(s) == { s[i] : i \in DOMAIN s }

UpperSet == Range(UpperChars)

\* a-z
LowerSet == { LowerChars[i] : i \in 1..26 }

DigitSet == Range(DigitChars)

\* upper-case letter -> lower-case letter
ToLower ==
    [ c \in UpperSet |-> LowerChars[CHOOSE i \in DOMAIN UpperChars : UpperChars[i] = c] ]

\* str.lower() on one character
LowerChar(c) == IF c \in UpperSet THEN ToLower[c] ELSE c

\* str.lower()
Lower(s) == [ i \in DOMAIN s |-> LowerChar(s[i]) ]

\* the characters str.strip() removes (str.isspace), up to U+00FF: space,
\* \t \n \v \f \r, the separators U+001C..U+001F, U+0085 and U+00A0
WhitespaceChars ==
    << " ", "\t", "\n", "", "\f", "\r", "", "", "", "", "", " " >>

\* their code points
WhitespaceOrds == << 32, 9, 10, 11, 12, 13, 28, 29, 30, 31, 133, 160 >>

WhitespaceSet == Range(WhitespaceChars)

IsSpace(c) == c \in WhitespaceSet

RECURSIVE LStrip(_)
LStrip(s) == IF s # <<>> /\ IsSpace(Head(s)) THEN LStrip(Tail(s)) ELSE s

RECURSIVE RStrip(_)
RStrip(s) ==
    IF s # <<>> /\ IsSpace(s[Len(s)]) THEN RStrip(SubSeq(s, 1, Len(s) - 1)) ELSE s

\* str.strip()
Strip(s) == RStrip(LStrip(s))

\* a in b  (substring containment)
IsSubstring(a, b) ==
    \E i \in 0..(Len(b) - Len(a)) : SubSeq(b, i + 1, i + Len(a)) = a

IsDigit(c) == c \in DigitSet

\* digit -> its value
DigitValues == [ c \in DigitSet |-> (CHOOSE i \in DOMAIN DigitChars : DigitChars[i] = c) - 1 ]

DigitVal(c) == DigitValues[c]

\* the text int() accepts once a sign is removed: digits, with single
\* underscores allowed between digits
IsDigitsLit(s) ==
    /\ s # <<>>
    /\ \A i \in DOMAIN s : IsDigit(s[i]) \/ s[i] = "_"
    /\ IsDigit(s[1])
    /\ IsDigit(s[Len(s)])
    /\ \A i \in 1..(Len(s) - 1) : ~(s[i] = "_" /\ s[i + 1] = "_")

\* the interpreter's limit on the digits of a decimal literal given to int()
\* (sys.get_int_max_str_digits()); the sign and underscores are not counted,
\* leading zeros are
IntMaxStrDigits == 4300

DigitCount(s) == Cardinality({ i \in DOMAIN s : IsDigit(s[i]) })

\* int(level) succeeds (level is already stripped)
IsIntLit(s) ==
    /\ s # <<>>
    /\ IF s[1] \in {"+", "-"} THEN IsDigitsLit(Tail(s)) ELSE IsDigitsLit(s)
    /\ DigitCount(s) <= IntMaxStrDigits

RECURSIVE DigitsVal(_, _)
DigitsVal(s, acc) ==
    IF s = <<>> THEN acc
    ELSE IF Head(s) = "_" THEN DigitsVal(Tail(s), acc)
    ELSE DigitsVal(Tail(s), 10 * acc + DigitVal(Head(s)))

\* int(level)
IntVal(s) ==
    IF s[1] = "-" THEN 0 - DigitsVal(Tail(s), 0)
    ELSE IF s[1] = "+" THEN DigitsVal(Tail(s), 0)
    ELSE DigitsVal(s, 0)

\* ------------------------------------------------------------------------
\* Card records.  A record of the catalog is an object of the decoded JSON;
\* is_dict = FALSE stands for an element that is not an object (a number, a
\* string), on which c.get raises AttributeError.  xp = NoXp is an absent or
\* null xp; code = "" an absent code.
\* ------------------------------------------------------------------------
NoXp == -1

\* c.get('xp') or 0
XpOf(c) == IF c.xp = NoXp THEN 0 ELSE c.xp

\* ------------------------------------------------------------------------
\* parse_level_search
\* ------------------------------------------------------------------------
\* where the  \)$  of the pattern can match in s: a ")" that is the last
\* character, or the last before a final line feed
LevelMatchEnds(s) ==
    { p \in DOMAIN s : /\ s[p] = ")"
                       /\ \/ p = Len(s)
                          \/ p = Len(s) - 1 /\ s[Len(s)] = "\n" }

\* \((.+?)\)$  matches from position i: a "(", then at least one character,
\* none of them a line feed (which "." does not match), up to such a ")"
LevelMatchesAt(s, i) ==
    /\ s[i] = "("
    /\ \E p \in LevelMatchEnds(s) :
          /\ p >= i + 2
          /\ \A j \in (i + 1)..(p - 1) : s[j] # "\n"

\* start of the match of  \((.+?)\)$  in s (0-based), or -1: re.search
\* takes the leftmost position the pattern matches from
LevelMatchStart(s) ==
    IF \E i \in DOMAIN s : LevelMatchesAt(s, i)
    THEN (CHOOSE i \in DOMAIN s :
             /\ LevelMatchesAt(s, i)
             /\ \A j \in 1..(i - 1) : ~LevelMatchesAt(s, j)) - 1
    ELSE -1

\* Returns (search_term, level_filter); level_filter is None (has_filter =
\* FALSE) or a closure over level and search_term.
parse_level_search(term) ==
    LET stripped == Strip(term)
        start == LevelMatchStart(stripped)
    IN  IF start = -1
        THEN [search_term |-> Lower(stripped), has_filter |-> FALSE, level |-> <<>>]
        ELSE [search_term |-> Lower(Strip(SubSeq(term, 1, start))),
              has_filter  |-> TRUE,
              level       |-> Strip(SubSeq(stripped, start + 2, Len(stripped) - 1))]

\* level_filter, were an exact level compared with >= instead of ==
level_filter_AtLeast(p, card) ==
    LET xp == XpOf(card)
        named == IsSubstring(p.search_term, Lower(card.name))
    IN  IF Lower(p.level) = <<"u">> THEN named /\ xp > 0
        ELSE IF IsIntLit(p.level) THEN named /\ xp >= IntVal(p.level)
        ELSE named

\* the closure level_filter(card) built by parse_level_search
level_filter(p, card) ==
    LET xp == XpOf(card)
        named == IsSubstring(p.search_term, Lower(card.name))
    IN  IF Lower(p.level) = <<"u">> THEN named /\ xp > 0
        ELSE IF IsIntLit(p.level) THEN named /\ xp = IntVal(p.level)
        ELSE named

\* ------------------------------------------------------------------------
\* _norm, _build_name_index
\* ------------------------------------------------------------------------
IsAlnumLower(c) == c \in LowerSet \/ IsDigit(c)

RECURSIVE StripNonAlnum(_)
StripNonAlnum(s) ==
    IF s = <<>> THEN <<>>
    ELSE IF IsAlnumLower(Head(s)) THEN <<Head(s)>> \o StripNonAlnum(Tail(s))
    ELSE StripNonAlnum(Tail(s))

_norm(s) == StripNonAlnum(Lower(s))

\* position of key in an ordered dict (a sequence of [key, val]), 0 if absent
KeyPos(d, key) ==
    IF \E i \in DOMAIN d : d[i].key = key
    THEN CHOOSE i \in DOMAIN d : d[i].key = key
    ELSE 0

RECURSIVE BuildIndexFrom(_, _)
BuildIndexFrom(cards, idx) ==
    IF cards = <<>> THEN idx
    ELSE LET c == Head(cards)
             n == _norm(c.name)
             pos == KeyPos(idx, n)
         IN  IF n = <<>> THEN BuildIndexFrom(Tail(cards), idx)
             ELSE IF pos = 0
             THEN BuildIndexFrom(Tail(cards), Append(idx, [key |-> n, val |-> <<c>>]))
             ELSE BuildIndexFrom(Tail(cards),
                      [idx EXCEPT ![pos].val = Append(@, c)])

\* every element of the payload is an object: no c.get raises
AllDicts(cards) == \A i \in DOMAIN cards : cards[i].is_dict

\* normalized name -> list of card records, in insertion order
_build_name_index(cards) == BuildIndexFrom(cards, <<>>)

\* list(NAME_INDEX.keys())
DictKeys(d) == [ i \in DOMAIN d |-> d[i].key ]

\* ------------------------------------------------------------------------
\* rapidfuzz: fuzz.token_set_ratio and process.extractOne, on the strings
\* find_matching_cards passes (normalized: no whitespace, so each string is
\* one token).  A score 100 - 100*d/l is kept as the pair [d, l].
\* ------------------------------------------------------------------------
Max(a, b) == IF a >= b THEN a ELSE b

\* one row of the longest-common-subsequence table: the row of the
\* character c of a, from the row before it
RECURSIVE LCSRow(_, _, _, _)
LCSRow(prev, c, b, row) ==
    IF Len(row) = Len(b) THEN row
    ELSE LET j == Len(row) + 1
             left == IF j = 1 THEN 0 ELSE row[j - 1]
             diag == IF j = 1 THEN 0 ELSE prev[j - 1]
         IN  LCSRow(prev, c, b,
                    Append(row, IF c = b[j] THEN diag + 1 ELSE Max(prev[j], left)))

\* the last row of the table, row by row
RECURSIVE LCSRows(_, _, _, _)
LCSRows(a, b, i, prev) ==
    IF i > Len(a) THEN prev
    ELSE LCSRows(a, b, i + 1, LCSRow(prev, a[i], b, <<>>))

\* length of the longest common subsequence
LCS(a, b) ==
    IF b = <<>> THEN 0
    ELSE LCSRows(a, b, 1, [ j \in DOMAIN b |-> 0 ])[Len(b)]

\* Indel distance
IndelDistance(a, b) == Len(a) + Len(b) - 2 * LCS(a, b)

\* fuzz.token_set_ratio(a, b) for single-token strings
token_set_ratio(a, b) ==
    IF a = <<>> \/ b = <<>> THEN [d |-> 1, l |-> 1]
    ELSE IF a = b THEN [d |-> 0, l |-> 1]
    ELSE [d |-> IndelDistance(a, b), l |-> Len(a) + Len(b)]

\* score x is strictly greater than score y
ScoreGreater(x, y) == x.d * y.l < y.d * x.l

\* score >= 80
FuzzyThreshold == 80

ScoreAtLeast(x, t) == 100 * x.l - 100 * x.d >= t * x.l

RECURSIVE ExtractFrom(_, _, _, _)
ExtractFrom(query, keys, i, best) ==
    IF i > Len(keys) THEN best
    ELSE LET sc == token_set_ratio(query, keys[i])
         IN  IF best.pos = 0 \/ ScoreGreater(sc, best.score)
             THEN ExtractFrom(query, keys, i + 1, [pos |-> i, score |-> sc])
             ELSE ExtractFrom(query, keys, i + 1, best)

\* process.extractOne(query, keys, scorer=fuzz.token_set_ratio): the first
\* key with the highest score (pos = 0: no key)
extractOne(query, keys) ==
    ExtractFrom(query, keys, 1, [pos |-> 0, score |-> [d |-> 1, l |-> 1]])

\* ------------------------------------------------------------------------
\* find_matching_cards
\* ------------------------------------------------------------------------
\* min(cards, key=lambda c: c.get('xp') or 0): the first of the minima
MinXp(cards) ==
    cards[CHOOSE i \in DOMAIN cards :
             /\ \A j \in DOMAIN cards : XpOf(cards[i]) <= XpOf(cards[j])
             /\ \A j \in 1..(i - 1) : XpOf(cards[j]) > XpOf(cards[i])]

\* the append loop, were seen_codes not consulted
RECURSIVE AppendUnseen_NoSeen(_, _)
AppendUnseen_NoSeen(acc, picks) ==
    IF picks = <<>> THEN acc
    ELSE LET c == Head(picks)
         IN  IF c.code # ""
             THEN AppendUnseen_NoSeen([matches    |-> Append(acc.matches, c),
                                       seen_codes |-> acc.seen_codes \cup {c.code}],
                                      Tail(picks))
             ELSE AppendUnseen_NoSeen(acc, Tail(picks))

\* for c in picks: if code and code not in seen_codes: add, append
RECURSIVE AppendUnseen(_, _)
AppendUnseen(acc, picks) ==
    IF picks = <<>> THEN acc
    ELSE LET c == Head(picks)
         IN  IF c.code # "" /\ c.code \notin acc.seen_codes
             THEN AppendUnseen([matches    |-> Append(acc.matches, c),
                                seen_codes |-> acc.seen_codes \cup {c.code}],
                               Tail(picks))
             ELSE AppendUnseen(acc, Tail(picks))

\* the level filter applied when one was given
PassesLevel(p, c) == ~p.has_filter \/ level_filter(p, c)

\* exact name path: the candidates of the exact stage
Exacts(p, cards) ==
    SelectSeq(cards, LAMBDA c : _norm(c.name) = _norm(p.search_term) /\ PassesLevel(p, c))

\* picks of the exact stage
ExactPicks(p, exacts) == IF ~p.has_filter THEN <<MinXp(exacts)>> ELSE exacts

\* substring fallback: the ordered dict by_name_lowest
RECURSIVE ByNameLowest(_, _, _)
ByNameLowest(p, cards, d) ==
    IF cards = <<>> THEN d
    ELSE LET c == Head(cards)
             key == _norm(c.name)
             pos == KeyPos(d, key)
         IN  IF IsSubstring(p.search_term, Lower(c.name)) /\ PassesLevel(p, c)
             THEN IF pos = 0
                  THEN ByNameLowest(p, Tail(cards), Append(d, [key |-> key, val |-> c]))
                  ELSE IF XpOf(c) < XpOf(d[pos].val)
                  THEN ByNameLowest(p, Tail(cards), [d EXCEPT ![pos].val = c])
                  ELSE ByNameLowest(p, Tail(cards), d)
             ELSE ByNameLowest(p, Tail(cards), d)

DictValues(d) == [ i \in DOMAIN d |-> d[i].val ]

\* NAME_INDEX.get(key, [])
IndexGet(index, key) ==
    IF KeyPos(index, key) = 0 THEN <<>> ELSE index[KeyPos(index, key)].val

\* fuzzy fallback: the picks (at most one) of the fuzzy stage
FuzzyPicks(p, index, keys) ==
    IF keys = <<>> THEN <<>>
    ELSE LET best == extractOne(_norm(p.search_term), keys)
         IN  IF best.pos # 0 /\ ScoreAtLeast(best.score, FuzzyThreshold)
             THEN LET all == IndexGet(index, keys[best.pos])
                      variants == IF p.has_filter
                                  THEN SelectSeq(all, LAMBDA c : level_filter(p, c))
                                  ELSE all
                  IN  IF variants # <<>> THEN <<MinXp(variants)>> ELSE <<>>
             ELSE <<>>

\* the stage that answers one stripped, non-empty token
StageOf(q, cards, index, keys) ==
    LET p == parse_level_search(q)
    IN  IF Exacts(p, cards) # <<>> THEN "exact"
        ELSE IF ByNameLowest(p, cards, <<>>) # <<>> THEN "substring"
        ELSE IF FuzzyPicks(p, index, keys) # <<>> THEN "fuzzy"
        ELSE "none"

\* the token's picks, were the substring stage tried before the exact one
PicksOf_SubstringFirst(q, cards, index, keys) ==
    LET p == parse_level_search(q)
        exacts == Exacts(p, cards)
        subs == ByNameLowest(p, cards, <<>>)
    IN  IF subs # <<>> THEN DictValues(subs)
        ELSE IF exacts # <<>> THEN ExactPicks(p, exacts)
        ELSE FuzzyPicks(p, index, keys)

\* the records one stripped, non-empty token picks, before deduplication
PicksOf(q, cards, index, keys) ==
    LET p == parse_level_search(q)
        exacts == Exacts(p, cards)
        subs == ByNameLowest(p, cards, <<>>)
    IN  IF exacts # <<>> THEN ExactPicks(p, exacts)
        ELSE IF subs # <<>> THEN DictValues(subs)
        ELSE FuzzyPicks(p, index, keys)

\* one iteration of  for q in queries
ProcessToken(acc, q0, cards, index, keys) ==
    LET q == Strip(q0)
    IN  IF q = <<>> THEN acc
        ELSE AppendUnseen(acc, PicksOf(q, cards, index, keys))

RECURSIVE MatchLoop(_, _, _, _, _)
MatchLoop(acc, queries, cards, index, keys) ==
    IF queries = <<>> THEN acc
    ELSE MatchLoop(ProcessToken(acc, Head(queries), cards, index, keys),
                   Tail(queries), cards, index, keys)

\* find_matching_cards(queries) against the globals.  raised: an element
\* of CARDS is not an object and a non-blank token made the loop read it.
find_matching_cards(queries, cards, index, keys) ==
    IF ~AllDicts(cards) /\ \E i \in DOMAIN queries : Strip(queries[i]) # <<>>
    THEN [raised |-> TRUE, matches |-> <<>>]
    ELSE [raised |-> FALSE,
          matches |-> MatchLoop([matches |-> <<>>, seen_codes |-> {}],
                                queries, cards, index, keys).matches]

\* ------------------------------------------------------------------------
\* build_deck_embeds
\* ------------------------------------------------------------------------
\* the printable ASCII characters U+0021..U+005F, in code-point order
AsciiChars ==
    << "!", "\"", "#", "$", "%", "&", "'", "(", ")", "*", "+", ",", "-", ".", "/", "0",
       "1", "2", "3", "4", "5", "6", "7", "8", "9", ":", ";", "<", "=", ">", "?", "@",
       "A", "B", "C", "D", "E", "F", "G", "H", "I", "J", "K", "L", "M", "N", "O", "P",
       "Q", "R", "S", "T", "U", "V", "W", "X", "Y", "Z", "[", "\\", "]", "^", "_" >>

\* U+0061..U+007E, in code-point order (the grave accent, U+0060, has no
\* string literal)
AsciiCharsHigh ==
    << "a", "b", "c", "d", "e", "f", "g", "h", "i", "j", "k", "l", "m", "n", "o", "p",
       "q", "r", "s", "t", "u", "v", "w", "x", "y", "z", "{", "|", "}", "~" >>

\* the Latin-1 characters U+00A1..U+00FF, in code-point order
Latin1Chars ==
    << "¡", "¢", "£", "¤", "¥", "¦", "§", "¨", "©", "ª", "«", "¬", "­", "®", "¯", "°",
    "±", "²", "³", "´", "µ", "¶", "·", "¸", "¹", "º", "»", "¼", "½", "¾", "¿", "À",
    "Á", "Â", "Ã", "Ä", "Å", "Æ", "Ç", "È", "É", "Ê", "Ë", "Ì", "Í", "Î", "Ï", "Ð",
    "Ñ", "Ò", "Ó", "Ô", "Õ", "Ö", "×", "Ø", "Ù", "Ú", "Û", "Ü", "Ý", "Þ", "ß", "à",
    "á", "â", "ã", "ä", "å", "æ", "ç", "è", "é", "ê", "ë", "ì", "í", "î", "ï", "ð",
    "ñ", "ò", "ó", "ô", "õ", "ö", "÷", "ø", "ù", "ú", "û", "ü", "ý", "þ", "ÿ" >>

\* character -> code point
OrdTable ==
    [ c \in Range(AsciiChars) \cup Range(AsciiCharsHigh) \cup Range(Latin1Chars)
            \cup WhitespaceSet |->
        IF c \in WhitespaceSet
        THEN WhitespaceOrds[CHOOSE i \in DOMAIN WhitespaceChars : WhitespaceChars[i] = c]
        ELSE IF c \in Range(AsciiChars)
        THEN 32 + (CHOOSE i \in DOMAIN AsciiChars : AsciiChars[i] = c)
        ELSE IF c \in Range(AsciiCharsHigh)
        THEN 96 + (CHOOSE i \in DOMAIN AsciiCharsHigh : AsciiCharsHigh[i] = c)
        ELSE 160 + (CHOOSE i \in DOMAIN Latin1Chars : Latin1Chars[i] = c) ]

\* ord(c), for the characters up to U+00FF that have a literal
Ord(c) == OrdTable[c]

\* a < b on Python strings
RECURSIVE StrLess(_, _)
StrLess(a, b) ==
    IF b = <<>> THEN FALSE
    ELSE IF a = <<>> THEN TRUE
    ELSE IF Ord(Head(a)) # Ord(Head(b)) THEN Ord(Head(a)) < Ord(Head(b))
    ELSE StrLess(Tail(a), Tail(b))

\* an absent slot
NoSlot == <<>>

\* e.get("slot", "zzzzzz")
SlotSortKey(c) == IF c.slot = NoSlot THEN <<"z","z","z","z","z","z">> ELSE c.slot

\* card.get("slot", "Other")
SlotLabel(c) == IF c.slot = NoSlot THEN <<"O","t","h","e","r">> ELSE c.slot

\* list.sort(key=...) is stable: c goes after every element whose key is
\* not greater than its own
RECURSIVE InsertBySlot(_, _)
InsertBySlot(sorted, c) ==
    IF sorted = <<>> THEN <<c>>
    ELSE IF StrLess(SlotSortKey(c), SlotSortKey(Head(sorted)))
    THEN <<c>> \o sorted
    ELSE <<Head(sorted)>> \o InsertBySlot(Tail(sorted), c)

RECURSIVE SortBySlot(_, _)
SortBySlot(cards, sorted) ==
    IF cards = <<>> THEN sorted
    ELSE SortBySlot(Tail(cards), InsertBySlot(sorted, Head(cards)))

\* len(str(n)) for n >= 0
RECURSIVE NumDigits(_)
NumDigits(n) == IF n < 10 THEN 1 ELSE 1 + NumDigits(n \div 10)

\* slots.get(code, 1)
SlotQty(slots, code) == IF code \in DOMAIN slots THEN slots[code] ELSE 1

\* len of  "- {qty} × [{name}]" + (" ({xp})" if xp) + " ({url})"
CardLineLen(c, slots) ==
    2 + NumDigits(SlotQty(slots, c.code)) + 4 + Len(c.name) + 1
      + (IF XpOf(c) # 0 THEN 3 + NumDigits(XpOf(c)) ELSE 0)
      + 2 + Len(c.url) + 1

CardLine(c, slots) == [kind |-> "card", code |-> c.code, len |-> CardLineLen(c, slots)]

\* "\n**{slot}:**"
SlotLine(c) == [kind |-> "slot", code |-> "", len |-> 1 + 2 + Len(SlotLabel(c)) + 3]

\* the lines of the Asset category: a sub-heading where the slot changes
RECURSIVE AssetParts(_, _, _, _)
AssetParts(cat_cards, slots, last_slot, parts) ==
    IF cat_cards = <<>> THEN parts
    ELSE LET card == Head(cat_cards)
             slot == SlotLabel(card)
         IN  IF <<slot>> # last_slot
             THEN AssetParts(Tail(cat_cards), slots, <<slot>>,
                             parts \o <<SlotLine(card), CardLine(card, slots)>>)
             ELSE AssetParts(Tail(cat_cards), slots, last_slot,
                             Append(parts, CardLine(card, slots)))

\* the lines of any other category
OtherParts(cat_cards, slots) == [ i \in DOMAIN cat_cards |-> CardLine(cat_cards[i], slots) ]

\* len("\n".join(lines))
RECURSIVE SumLen(_)
SumLen(lines) == IF lines = <<>> THEN 0 ELSE Head(lines).len + SumLen(Tail(lines))

JoinLen(lines) == IF lines = <<>> THEN 0 ELSE SumLen(lines) + Len(lines) - 1

\* the length under which a category is one embed
SafetyThreshold == 3800

\* the budget of one chunk
ChunkBudget == 1500

\* for line in parts: flush buf when the line would overflow the budget
RECURSIVE ChunkLoop(_, _, _, _)
ChunkLoop(parts, chunks, buf, count) ==
    IF parts = <<>>
    THEN IF buf # <<>> THEN Append(chunks, buf) ELSE chunks
    ELSE LET line == Head(parts)
         IN  IF count + line.len + 1 > ChunkBudget
             THEN ChunkLoop(Tail(parts), Append(chunks, buf), <<line>>, line.len + 1)
             ELSE ChunkLoop(Tail(parts), chunks, Append(buf, line), count + line.len + 1)

\* the embeds of one category: one if the text fits the safety threshold,
\* else one per chunk, titled [i/len(chunks)]
Paginate(category, parts) ==
    IF JoinLen(parts) <= SafetyThreshold
    THEN << [category |-> category, part |-> 0, total |-> 0, lines |-> parts] >>
    ELSE LET chunks == ChunkLoop(parts, <<>>, <<>>, 0)
         IN  [ i \in DOMAIN chunks |->
                 [category |-> category, part |-> i, total |-> Len(chunks),
                  lines |-> chunks[i]] ]

Categories == <<"Asset", "Permanent", "Event", "Skill", "Treachery", "Enemy">>

\* category.lower()
CategoryLower(category) ==
    CASE category = "Asset" -> "asset"
      [] category = "Permanent" -> "permanent"
      [] category = "Event" -> "event"
      [] category = "Skill" -> "skill"
      [] category = "Treachery" -> "treachery"
      [] category = "Enemy" -> "enemy"

\* the category filter, were the permanent flag not excluded from the
\* type_code categories
CatCards_KeepPermanent(category, deck_cards) ==
    IF category = "Permanent"
    THEN SelectSeq(deck_cards, LAMBDA c : c.permanent = "true")
    ELSE SelectSeq(deck_cards, LAMBDA c : c.type_code = CategoryLower(category))

\* the cards listed under one category
CatCards(category, deck_cards) ==
    IF category = "Permanent"
    THEN SelectSeq(deck_cards, LAMBDA c : c.permanent = "true")
    ELSE SelectSeq(deck_cards, LAMBDA c : c.type_code = CategoryLower(category)
                                          /\ c.permanent # "true")

\* the embeds of one category (none if it has no card)
CategoryEmbeds(category, deck_cards, slots) ==
    LET cat_cards == CatCards(category, deck_cards)
    IN  IF cat_cards = <<>> THEN <<>>
        ELSE IF category = "Asset"
        THEN Paginate(category,
                      AssetParts(SortBySlot(cat_cards, <<>>), slots, <<>>, <<>>))
        ELSE Paginate(category, OtherParts(cat_cards, slots))

RECURSIVE CategoryLoop(_, _, _, _)
CategoryLoop(i, deck_cards, slots, embeds) ==
    IF i > Len(Categories) THEN embeds
    ELSE CategoryLoop(i + 1, deck_cards, slots,
                      embeds \o CategoryEmbeds(Categories[i], deck_cards, slots))

\* the header embed
HeaderEmbed == [category |-> "Header", part |-> 0, total |-> 0, lines |-> <<>>]

\* build_deck_embeds(deck) against CARDS; slots maps code -> quantity.
\* raised: an element of CARDS is not an object (line 314 reads it).
build_deck_embeds(slots, cards) ==
    IF ~AllDicts(cards) THEN [raised |-> TRUE, embeds |-> <<>>]
    ELSE LET deck_cards == SelectSeq(cards, LAMBDA c : c.code \in DOMAIN slots)
         IN  [raised |-> FALSE,
              embeds |-> CategoryLoop(1, deck_cards, slots, <<HeaderEmbed>>)]

\* ------------------------------------------------------------------------
\* Inputs: card records, catalogs, search tokens
\* ------------------------------------------------------------------------
Card(code, name, xp, type_code, permanent, slot) ==
    [is_dict |-> TRUE, code |-> code, name |-> name, xp |-> xp,
     type_code |-> type_code, permanent |-> permanent, slot |-> slot,
     url |-> <<"/">> \o <<code>>]

\* an element of the payload that is not a JSON object
NotADict ==
    [is_dict |-> FALSE, code |-> "", name |-> <<>>, xp |-> NoXp,
     type_code |-> "", permanent |-> "none", slot |-> <<>>, url |-> <<>>]

NameLucky == <<"L","u","c","k","y","!">>
NameDice  == <<"L","u","c","k","y"," ","D","i","c","e">>
NameLuck  == <<"l","u","c","k","y">>

\* the records catalogs are drawn from, in feed order: four prints of
\* "Lucky!" (xp 3, absent, 0, 2), "Lucky Dice" at xp 2, and "lucky", whose
\* normalized name is that of "Lucky!"
CardPool ==
    << Card("03", NameLucky, 3, "event", "false", <<>>),
       Card("01", NameLucky, NoXp, "event", "false", <<>>),
       Card("05", NameLucky, 0, "event", "none", <<>>),
       Card("02", NameLucky, 2, "event", "false", <<>>),
       Card("04", NameDice, 2, "asset", "false", <<"H","a","n","d">>),
       Card("06", NameLuck, 2, "skill", "false", <<>>) >>

MaxCards == 3

\* strictly increasing sequences of at most n elements of 1..m
IncreasingSeqs(m, n) ==
    { s \in UNION { [1..k -> 1..m] : k \in 0..n } :
        \A i, j \in DOMAIN s : i < j => s[i] < s[j] }

\* the catalogs: at most MaxCards records of the pool, in feed order
Catalogs ==
    { [ i \in DOMAIN s |-> CardPool[s[i]] ] : s \in IncreasingSeqs(Len(CardPool), MaxCards) }

Suffix(x) == <<" ", "(">> \o x \o <<")">>

\* the search tokens
TokenPool ==
    { NameLucky,
      NameLucky \o Suffix(<<"2">>),
      NameLucky \o Suffix(<<"0">>),
      NameLucky \o Suffix(<<"u">>),
      NameLucky \o Suffix(<<"U">>),
      NameLuck \o Suffix(<<"2">>),
      NameLuck \o Suffix(<<"x">>),
      NameLuck \o Suffix(<<"2", "\n">>),
      <<"L","c","k","y">>,
      <<"\t","d","i","c","e">>,
      <<" ","\t">> }

MaxTokens == 2

TokenLists == UNION { [1..n -> TokenPool] : n \in 0..MaxTokens }

\* the catalog decks are composed against: assets in the slots
\* "Hand. Arcane" and "Hand x2" and in none, a
\* permanent asset, a permanent event, one record of each other category,
\* and an investigator
DeckCatalog ==
    << Card("a1", <<"K","n","i","f","e">>, 0, "asset", "false",
            <<"H","a","n","d","."," ","A","r","c","a","n","e">>),
       Card("a2", <<"C","a","t">>, 2, "asset", "false", <<"H","a","n","d"," ","x","2">>),
       Card("a3", <<"M","a","p">>, NoXp, "asset", "none", NoSlot),
       Card("p1", <<"C","h","a","r","m">>, 3, "asset", "true", <<"A","l","l","y">>),
       Card("p2", <<"O","a","t","h">>, 0, "event", "true", NoSlot),
       Card("e1", <<"W","a","r","d">>, 0, "event", "false", NoSlot),
       Card("s1", <<"G","u","t","s">>, 0, "skill", "false", NoSlot),
       Card("t1", <<"D","o","o","m">>, 0, "treachery", "false", NoSlot),
       Card("n1", <<"R","a","t">>, 0, "enemy", "false", NoSlot),
       Card("i1", <<"R","o","l","a","n","d">>, 0, "investigator", "none", NoSlot) >>

Reverse(s) == [ i \in DOMAIN s |-> s[Len(s) + 1 - i] ]

DeckCatalogs == { DeckCatalog, Reverse(DeckCatalog) }

\* the codes a deck may name: those of the catalog and one it lacks
DeckCodes == { DeckCatalog[i].code : i \in DOMAIN DeckCatalog } \cup {"99"}

MaxSlots == 3

DeckQtys == {1, 10}

\* the slots maps: at most MaxSlots codes, each owned q times
SlotMaps ==
    { [ c \in S |-> q ] : S \in { T \in SUBSET DeckCodes : Cardinality(T) <= MaxSlots },
                          q \in DeckQtys }

\* rendered lines, by length
LineLens == {632, 633, 1500, 1501}

MaxLines == 6

PartLists ==
    UNION { [1..n -> { [kind |-> "card", code |-> "", len |-> l] : l \in LineLens }] :
              n \in 1..MaxLines }

\* the payloads a catalog fetch can decode to: a small catalog, nine prints
\* of one name (xp 0..8), and a payload with an element that is no object
SmallCatalog == << CardPool[2], CardPool[4], CardPool[5] >>

BigCodes == <<"b0", "b1", "b2", "b3", "b4", "b5", "b6", "b7", "b8">>

BigCatalog ==
    [ i \in DOMAIN BigCodes |-> Card(BigCodes[i], NameLucky, i - 1, "event", "false", NoSlot) ]

BadPayload == << CardPool[2], NotADict >>

Payloads == { SmallCatalog, BigCatalog, BadPayload }

\* the card tokens of a message
MessageTokens ==
    { <<>>,
      << NameLucky >>,
      << NameLucky \o Suffix(<<"u">>) >>,
      << NameLuck \o Suffix(<<"x">>) >>,
      << <<"L","c","k","y">> >> }

\* the slots of the decks a deck fetch can return
MessageDecks == { [ c \in {"01", "04", "b1", "99"} |-> 2 ] }

MaxLoads == 2


\* ------------------------------------------------------------------------
\* State
\* ------------------------------------------------------------------------
VARIABLES
    CARDS,        \* the record list
    NAME_INDEX,   \* normalized name -> records, an ordered dict
    NAME_KEYS,    \* list(NAME_INDEX.keys())
    queries,      \* the tokens given to find_matching_cards
    matches,      \* its return value
    slots,        \* the deck's code -> quantity map
    deck_embeds,  \* the return value of build_deck_embeds
    parts,        \* the rendered lines of one category
    sections,     \* the embeds they are paginated into
    call_pc,      \* a function called alone: "call" before, "done" after
    load_fetching, \* number of load_cards calls awaiting fetch_json
    load_closing, \* number of load_cards calls that have assigned CARDS and
                  \*   await the session's exit
    load_alone,   \* no other call of load_cards has been in flight since
                  \*   the latest one was entered
    load_old,     \* the snapshot when the latest call was entered alone
    load_outcome, \* how the call that ended last since then ended: "none",
                  \*   "ok", or "failed" (load_cards raised)
    loads,        \* number of load_cards calls so far
    msg_pc,       \* on_message: "idle", or the await it is suspended in:
                  \*   "reply_too_many", "reply_no_results", "fetch_deck",
                  \*   "reply_deck_failed", "create_thread", "send",
                  \*   "add_reaction", "reply_send_failed"; "ended" after
    deck_match,   \* the message carries a deck link
    deck_failed,  \* the deck's except branch ran
    call_failed,  \* a reply or send of this request raised
    thread,       \* a thread was created for this request
    outbox,       \* what this request has sent, in order
    msg_end       \* how the request ended

catalogVars == <<CARDS, NAME_INDEX, NAME_KEYS>>

callVars == <<queries, matches, slots, deck_embeds, parts, sections, call_pc>>

loadVars == <<load_fetching, load_closing, load_alone, load_old, load_outcome, loads>>

msgVars == <<msg_pc, deck_match, deck_failed, call_failed, thread, outbox, msg_end>>

vars == <<CARDS, NAME_INDEX, NAME_KEYS, queries, matches, slots, deck_embeds,
          parts, sections, call_pc, load_fetching, load_closing, load_alone,
          load_old, load_outcome, loads, msg_pc, deck_match, deck_failed,
          call_failed, thread, outbox, msg_end>>

Snapshot == [cards |-> CARDS, index |-> NAME_INDEX, keys |-> NAME_KEYS]

\* load_old when no call of load_cards was entered alone
NoSnapshot == [cards |-> <<>>, index |-> <<>>, keys |-> <<>>]

\* no coroutine is running
CoroutinesIdle ==
    /\ load_fetching = 0
    /\ load_closing = 0
    /\ load_alone = FALSE
    /\ load_old = NoSnapshot
    /\ load_outcome = "none"
    /\ loads = 0
    /\ msg_pc = "idle"
    /\ deck_match = FALSE
    /\ deck_failed = FALSE
    /\ call_failed = FALSE
    /\ thread = FALSE
    /\ outbox = <<>>
    /\ msg_end = "none"

\* ------------------------------------------------------------------------
\* find_matching_cards called on a loaded catalog
\* ------------------------------------------------------------------------
InitMatch ==
    /\ CARDS \in Catalogs
    /\ NAME_INDEX = _build_name_index(CARDS)
    /\ NAME_KEYS = DictKeys(NAME_INDEX)
    /\ queries \in TokenLists
    /\ matches = <<>>
    /\ slots = <<>>
    /\ deck_embeds = <<>>
    /\ parts = <<>>
    /\ sections = <<>>
    /\ call_pc = "call"
    /\ CoroutinesIdle

Resolve ==
    /\ call_pc = "call"
    /\ matches' = find_matching_cards(queries, CARDS, NAME_INDEX, NAME_KEYS).matches
    /\ call_pc' = "done"
    /\ UNCHANGED <<catalogVars, queries, slots, deck_embeds, parts, sections,
                   loadVars, msgVars>>

NextMatch == Resolve

SpecMatch == InitMatch /\ [][NextMatch]_vars

\* ------------------------------------------------------------------------
\* build_deck_embeds called on a loaded catalog
\* ------------------------------------------------------------------------
InitDeck ==
    /\ CARDS \in DeckCatalogs
    /\ NAME_INDEX = _build_name_index(CARDS)
    /\ NAME_KEYS = DictKeys(NAME_INDEX)
    /\ queries = <<>>
    /\ matches = <<>>
    /\ slots \in SlotMaps
    /\ deck_embeds = <<>>
    /\ parts = <<>>
    /\ sections = <<>>
    /\ call_pc = "call"
    /\ CoroutinesIdle

Compose ==
    /\ call_pc = "call"
    /\ deck_embeds' = build_deck_embeds(slots, CARDS).embeds
    /\ call_pc' = "done"
    /\ UNCHANGED <<catalogVars, queries, matches, slots, parts, sections,
                   loadVars, msgVars>>

NextDeck == Compose

SpecDeck == InitDeck /\ [][NextDeck]_vars

\* ------------------------------------------------------------------------
\* the pagination of one category's lines (build_deck_embeds, lines 376-399)
\* ------------------------------------------------------------------------
InitPage ==
    /\ CARDS = <<>>
    /\ NAME_INDEX = <<>>
    /\ NAME_KEYS = <<>>
    /\ queries = <<>>
    /\ matches = <<>>
    /\ slots = <<>>
    /\ deck_embeds = <<>>
    /\ parts \in PartLists
    /\ sections = <<>>
    /\ call_pc = "call"
    /\ CoroutinesIdle

Split ==
    /\ call_pc = "call"
    /\ sections' = Paginate("Event", parts)
    /\ call_pc' = "done"
    /\ UNCHANGED <<catalogVars, queries, matches, slots, deck_embeds, parts,
                   loadVars, msgVars>>

NextPage == Split

SpecPage == InitPage /\ [][NextPage]_vars

\* ------------------------------------------------------------------------
\* The bot: load_cards (from on_ready or reload_cards_cmd) and on_message,
\* coroutines interleaved by the event loop at their awaits
\* ------------------------------------------------------------------------
MAX_CARD_MATCHES == 8

EMBEDS_PER_MESSAGE_LIMIT == 10

\* chunk_embeds(embeds): slices of EMBEDS_PER_MESSAGE_LIMIT
RECURSIVE chunk_embeds(_)
chunk_embeds(embeds) ==
    IF embeds = <<>> THEN <<>>
    ELSE IF Len(embeds) <= EMBEDS_PER_MESSAGE_LIMIT THEN << embeds >>
    ELSE << SubSeq(embeds, 1, EMBEDS_PER_MESSAGE_LIMIT) >>
            \o chunk_embeds(SubSeq(embeds, EMBEDS_PER_MESSAGE_LIMIT + 1, Len(embeds)))

is_big_response(card_count, deck_embed_count) == card_count > 3 \/ deck_embed_count > 10

\* the cap, were it compared one too high
TooManyMatches_OffByOne(found) == Len(found) > MAX_CARD_MATCHES + 1

\* len(matches) > MAX_CARD_MATCHES
TooManyMatches(found) == Len(found) > MAX_CARD_MATCHES

\* message.reply(...)
Reply(what) == [kind |-> "reply", target |-> "message", what |-> what, embeds |-> <<>>]

\* target.send(embeds=batch)
Send(target, what, batch) == [kind |-> "send", target |-> target, what |-> what, embeds |-> batch]

\* message.create_thread(...)
CreateThread == [kind |-> "create_thread", target |-> "message", what |-> "thread", embeds |-> <<>>]

Init ==
    /\ CARDS = <<>>
    /\ NAME_INDEX = <<>>
    /\ NAME_KEYS = <<>>
    /\ queries = <<>>
    /\ matches = <<>>
    /\ slots = <<>>
    /\ deck_embeds = <<>>
    /\ parts = <<>>
    /\ sections = <<>>
    /\ call_pc = "idle"
    /\ CoroutinesIdle

\* load_cards is entered, from on_ready or from reload_cards_cmd (after its
\* defer), and awaits fetch_json. load_cards has no local state, and nothing
\* keeps a call from being entered while earlier ones are suspended: the
\* calls in flight are counted by the await they are suspended in
LoadBegin ==
    /\ loads < MaxLoads
    /\ loads' = loads + 1
    /\ load_fetching' = load_fetching + 1
    /\ load_alone' = (load_fetching + load_closing = 0)
    /\ load_old' = IF load_fetching + load_closing = 0 THEN Snapshot ELSE NoSnapshot
    /\ load_outcome' = "none"
    /\ UNCHANGED <<catalogVars, callVars, msgVars, load_closing>>

\* fetch_json raises in one of the calls (unreachable, non-200,
\* undecodable): CARDS is not assigned and load_cards raises into its
\* caller, which reports it (reload_cards_cmd: "Failed: ...")
LoadFetchFails ==
    /\ load_fetching > 0
    /\ load_fetching' = load_fetching - 1
    /\ load_outcome' = "failed"
    /\ UNCHANGED <<catalogVars, callVars, msgVars, load_closing, load_alone,
                   load_old, loads>>

\* _refresh_name_index() on the record list cards: the new indexes, or the
\* old ones and a raise when an element is no object
RefreshOutcome(cards) ==
    IF AllDicts(cards)
    THEN [index |-> _build_name_index(cards),
          keys |-> DictKeys(_build_name_index(cards)),
          outcome |-> "ok"]
    ELSE [index |-> NAME_INDEX, keys |-> NAME_KEYS, outcome |-> "failed"]

\* fetch_json returns payload in one of the calls: CARDS is assigned, and
\* the exit of the session's async with suspends load_cards before
\* _refresh_name_index
LoadFetchedSuspends(payload) ==
    /\ load_fetching > 0
    /\ load_fetching' = load_fetching - 1
    /\ load_closing' = load_closing + 1
    /\ CARDS' = payload
    /\ UNCHANGED <<NAME_INDEX, NAME_KEYS, callVars, msgVars, load_alone,
                   load_old, load_outcome, loads>>

\* fetch_json returns payload in one of the calls and the session's exit
\* does not suspend: CARDS is assigned and _refresh_name_index runs in the
\* same step; load_cards returns or raises into its caller, which reports it
LoadFetchedRefreshes(payload) ==
    /\ load_fetching > 0
    /\ load_fetching' = load_fetching - 1
    /\ CARDS' = payload
    /\ NAME_INDEX' = RefreshOutcome(payload).index
    /\ NAME_KEYS' = RefreshOutcome(payload).keys
    /\ load_outcome' = RefreshOutcome(payload).outcome
    /\ UNCHANGED <<callVars, msgVars, load_closing, load_alone, load_old, loads>>

\* one of the calls resumes after the session's exit: _refresh_name_index,
\* on the CARDS of now; load_cards returns or raises into its caller
LoadRefresh ==
    /\ load_closing > 0
    /\ load_closing' = load_closing - 1
    /\ NAME_INDEX' = RefreshOutcome(CARDS).index
    /\ NAME_KEYS' = RefreshOutcome(CARDS).keys
    /\ load_outcome' = RefreshOutcome(CARDS).outcome
    /\ UNCHANGED <<CARDS, callVars, msgVars, load_fetching, load_alone, load_old, loads>>

\* on_message ends: the handler returns, or raises into the event
\* dispatcher, which logs the exception
EndRequest(how, sent, failed) ==
    /\ msg_pc' = "ended"
    /\ msg_end' = how
    /\ outbox' = sent
    /\ call_failed' = failed

\* a message from a bot, outside the allowed channels, or with neither a
\* deck link nor a card token: on_message returns at once
OnMessageIgnored ==
    /\ msg_pc = "idle"
    /\ EndRequest("ignored", <<>>, FALSE)
    /\ UNCHANGED <<catalogVars, callVars, loadVars, deck_match, deck_failed, thread>>

\* the await the try block of lines 487-497 runs into once sent batches
\* have gone out: the next target.send, or message.add_reaction
AwaitAfterSends(cards, embeds, sent) ==
    IF sent < Len(chunk_embeds(embeds)) + Len(chunk_embeds(cards))
    THEN "send"
    ELSE "add_reaction"

\* the await lines 471-497 run into first: message.create_thread when the
\* response is big and the channel is a TextChannel, else as above
AwaitAfterDeck(cards, embeds, text_channel) ==
    IF is_big_response(Len(cards), Len(embeds)) /\ text_channel
    THEN "create_thread"
    ELSE AwaitAfterSends(cards, embeds, 0)
\* on_message, from the extraction of the deck link and the card tokens up
\* to the first await it runs into. One handler is followed at a time: the
\* handlers of other messages write nothing that this one reads.
\* text_channel: message.channel is a discord.TextChannel
OnMessage(card_tokens, has_deck, text_channel) ==
    /\ msg_pc = "idle"
    /\ has_deck \/ card_tokens # <<>>
    /\ deck_match' = has_deck
    /\ queries' = card_tokens
    /\ LET found == find_matching_cards(card_tokens, CARDS, NAME_INDEX, NAME_KEYS)
       IN  IF card_tokens # <<>> /\ found.raised
           THEN /\ matches' = <<>>
                /\ EndRequest("raised", <<>>, FALSE)
           ELSE IF card_tokens # <<>> /\ TooManyMatches(found.matches)
           THEN /\ matches' = found.matches
                /\ msg_pc' = "reply_too_many"
                /\ UNCHANGED <<msg_end, outbox, call_failed>>
           ELSE IF card_tokens # <<>> /\ Len(found.matches) = 0 /\ ~has_deck
           THEN /\ matches' = <<>>
                /\ msg_pc' = "reply_no_results"
                /\ UNCHANGED <<msg_end, outbox, call_failed>>
           ELSE /\ matches' = found.matches
                /\ msg_pc' = IF has_deck
                              THEN "fetch_deck"
                              ELSE AwaitAfterDeck(found.matches, <<>>, text_channel)
                /\ UNCHANGED <<msg_end, outbox, call_failed>>
    /\ UNCHANGED <<catalogVars, slots, deck_embeds, parts, sections, call_pc,
                   loadVars, deck_failed, thread>>

\* the replies on_message ends with
FinalReplies == {"reply_too_many", "reply_no_results", "reply_send_failed"}

ReplyKind(pc) ==
    CASE pc = "reply_too_many" -> "too_many"
      [] pc = "reply_no_results" -> "no_results"
      [] pc = "reply_send_failed" -> "send_failed"

\* message.reply(...) of lines 454, 457 or 497 is over, and on_message
\* returns; or it raised, and on_message raises.
\* reply_ok: message.reply does not raise
ReplyDone(reply_ok) ==
    /\ msg_pc \in FinalReplies
    /\ IF reply_ok
       THEN EndRequest(ReplyKind(msg_pc), Append(outbox, Reply(ReplyKind(msg_pc))),
                       call_failed)
       ELSE EndRequest("raised", outbox, TRUE)
    /\ UNCHANGED <<catalogVars, callVars, loadVars, deck_match, deck_failed, thread>>

\* the except branch of the deck is entered: message.reply is awaited
DeckExcept ==
    /\ msg_pc' = "reply_deck_failed"
    /\ deck_failed' = TRUE

\* fetch_deck raises
FetchDeckFails ==
    /\ msg_pc = "fetch_deck"
    /\ DeckExcept
    /\ UNCHANGED <<catalogVars, callVars, loadVars, deck_match, call_failed,
                   thread, outbox, msg_end>>

\* fetch_deck returns a deck and build_deck_embeds runs on the CARDS of now
FetchDeckReturns(deck_slots, text_channel) ==
    /\ msg_pc = "fetch_deck"
    /\ slots' = deck_slots
    /\ LET built == build_deck_embeds(deck_slots, CARDS)
       IN  IF built.raised
           THEN /\ DeckExcept
                /\ UNCHANGED deck_embeds
           ELSE /\ deck_embeds' = built.embeds
                /\ msg_pc' = AwaitAfterDeck(matches, built.embeds, text_channel)
                /\ UNCHANGED deck_failed
    /\ UNCHANGED <<catalogVars, queries, matches, parts, sections, call_pc,
                   loadVars, deck_match, call_failed, thread, outbox, msg_end>>

\* the rest of the except branch, were it to return after its reply
DeckFailed_Returns(reply_ok, text_channel) ==
    /\ deck_embeds' = <<>>
    /\ IF reply_ok
       THEN EndRequest("deck_failed", Append(outbox, Reply("deck_failed")), FALSE)
       ELSE EndRequest("raised", outbox, TRUE)

\* the rest of the except branch: the reply is over, deck_embeds = [], and
\* on_message goes on to its response; or the reply raised, and on_message
\* raises
DeckFailed(reply_ok, text_channel) ==
    /\ deck_embeds' = <<>>
    /\ IF reply_ok
       THEN /\ msg_pc' = AwaitAfterDeck(matches, <<>>, text_channel)
            /\ outbox' = Append(outbox, Reply("deck_failed"))
            /\ UNCHANGED <<msg_end, call_failed>>
       ELSE EndRequest("raised", outbox, TRUE)

\* message.reply of line 468 is over
DeckReplyDone(reply_ok, text_channel) ==
    /\ msg_pc = "reply_deck_failed"
    /\ DeckFailed(reply_ok, text_channel)
    /\ UNCHANGED <<catalogVars, queries, matches, slots, parts, sections, call_pc,
                   loadVars, deck_match, deck_failed, thread>>

\* message.create_thread is over: the thread is the target, or it raised and
\* the channel stays the target
ThreadDone(created) ==
    /\ msg_pc = "create_thread"
    /\ thread' = created
    /\ outbox' = IF created THEN Append(outbox, CreateThread) ELSE outbox
    /\ msg_pc' = AwaitAfterSends(matches, deck_embeds, 0)
    /\ UNCHANGED <<catalogVars, callVars, loadVars, deck_match, deck_failed,
                   call_failed, msg_end>>

\* where the results go
Target == IF thread THEN "thread" ELSE "channel"

\* the sends of the try block, in order: the deck's batches, then the cards'
PlannedSends(target) ==
    [ i \in DOMAIN chunk_embeds(deck_embeds) |->
        Send(target, "deck", chunk_embeds(deck_embeds)[i]) ]
    \o
    [ i \in DOMAIN chunk_embeds(matches) |->
        Send(target, "cards", chunk_embeds(matches)[i]) ]

\* the batches that have gone out
Sent == Cardinality({ i \in DOMAIN outbox : outbox[i].kind = "send" })

\* one target.send(embeds=batch) is over: the next batch, the reaction, or,
\* if it raised, the reply of the except branch is awaited
SendDone(send_ok) ==
    /\ msg_pc = "send"
    /\ IF send_ok
       THEN /\ outbox' = Append(outbox, PlannedSends(Target)[Sent + 1])
            /\ msg_pc' = AwaitAfterSends(matches, deck_embeds, Sent + 1)
            /\ UNCHANGED call_failed
       ELSE /\ msg_pc' = "reply_send_failed"
            /\ call_failed' = TRUE
            /\ UNCHANGED outbox
    /\ UNCHANGED <<catalogVars, callVars, loadVars, deck_match, deck_failed,
                   thread, msg_end>>

\* message.add_reaction is over, raised or not: on_message returns
ReactionDone ==
    /\ msg_pc = "add_reaction"
    /\ EndRequest("responded", outbox, call_failed)
    /\ UNCHANGED <<catalogVars, callVars, loadVars, deck_match, deck_failed, thread>>

\* the coroutine of the request is gone with its locals
Return ==
    /\ msg_pc = "ended"
    /\ msg_pc' = "idle"
    /\ queries' = <<>>
    /\ matches' = <<>>
    /\ slots' = <<>>
    /\ deck_embeds' = <<>>
    /\ deck_match' = FALSE
    /\ deck_failed' = FALSE
    /\ call_failed' = FALSE
    /\ thread' = FALSE
    /\ outbox' = <<>>
    /\ msg_end' = "none"
    /\ UNCHANGED <<catalogVars, parts, sections, call_pc, loadVars>>

Next ==
    \/ LoadBegin
    \/ LoadFetchFails
    \/ \E payload \in Payloads : LoadFetchedSuspends(payload)
    \/ \E payload \in Payloads : LoadFetchedRefreshes(payload)
    \/ LoadRefresh
    \/ OnMessageIgnored
    \/ \E card_tokens \in MessageTokens, has_deck \in BOOLEAN, text_channel \in BOOLEAN :
            OnMessage(card_tokens, has_deck, text_channel)
    \/ \E reply_ok \in BOOLEAN : ReplyDone(reply_ok)
    \/ FetchDeckFails
    \/ \E deck_slots \in MessageDecks, text_channel \in BOOLEAN :
            FetchDeckReturns(deck_slots, text_channel)
    \/ \E reply_ok \in BOOLEAN, text_channel \in BOOLEAN :
            DeckReplyDone(reply_ok, text_channel)
    \/ \E created \in BOOLEAN : ThreadDone(created)
    \/ \E send_ok \in BOOLEAN : SendDone(send_ok)
    \/ ReactionDone
    \/ Return

Spec == Init /\ [][Next]_vars

\* ------------------------------------------------------------------------
\* Properties of find_matching_cards (checked under SpecMatch)
\* ------------------------------------------------------------------------
NonBlank(q) == Strip(q) # <<>>

Parsed(q) == parse_level_search(Strip(q))

BaseNorm(q) == _norm(Parsed(q).search_term)

\* the catalog has a record whose normalized name is the token's base
HasNamesake(q) == \E i \in DOMAIN CARDS : _norm(CARDS[i].name) = BaseNorm(q)

\* ... and that record passes the token's level filter, if it has one
HasPassingNamesake(q) ==
    \E i \in DOMAIN CARDS :
        /\ _norm(CARDS[i].name) = BaseNorm(q)
        /\ PassesLevel(Parsed(q), CARDS[i])

\* every match bears the normalized name of some token's base
OnlyNamesakesMatched ==
    \A i \in DOMAIN matches :
        \E k \in DOMAIN queries :
            NonBlank(queries[k]) /\ _norm(matches[i].name) = BaseNorm(queries[k])

\* C3 as claimed: whenever every token has a record of its normalized name
\* in the catalog, only records of those normalized names are returned (the
\* substring and fuzzy stages add nothing).
C3_ExactPriorityAsClaimed ==
    (call_pc = "done" /\ \A k \in DOMAIN queries :
                              NonBlank(queries[k]) => HasNamesake(queries[k]))
        => OnlyNamesakesMatched

\* C3 amended: whenever every token has a record of its normalized name
\* that also passes the token's level filter, only records of those
\* normalized names are returned.
C3_ExactPriority ==
    (call_pc = "done" /\ \A k \in DOMAIN queries :
                              NonBlank(queries[k]) => HasPassingNamesake(queries[k]))
        => OnlyNamesakesMatched

\* "lucky (2)" resolved on a catalog holding "Lucky Dice" (2), which the
\* substring stage would return, and a record named lucky at xp 2
C3_Witness ==
    /\ call_pc = "done"
    /\ queries = << NameLuck \o Suffix(<<"2">>) >>
    /\ \E i \in DOMAIN CARDS : CARDS[i].name = NameDice /\ CARDS[i].xp = 2
    /\ matches # <<>>
    /\ \A i \in DOMAIN matches : matches[i].name # NameDice

\* the catalog holds prints of nm, and no other record's name is related to
\* nm (same normalized name, or containing nm)
PrintFamily(nm) ==
    /\ \E i \in DOMAIN CARDS : CARDS[i].name = nm
    /\ \A i \in DOMAIN CARDS :
          \/ CARDS[i].name = nm
          \/ /\ _norm(CARDS[i].name) # _norm(nm)
             /\ ~IsSubstring(Lower(nm), Lower(CARDS[i].name))

PrintsAtLevel(nm, n) == SelectSeq(CARDS, LAMBDA c : c.name = nm /\ XpOf(c) = n)

PrintsUpgraded(nm) == SelectSeq(CARDS, LAMBDA c : c.name = nm /\ XpOf(c) > 0)

\* the first print of nm of minimum xp
IsLowestPrint(nm, c) ==
    \E i \in DOMAIN CARDS :
        /\ CARDS[i] = c
        /\ c.name = nm
        /\ \A j \in DOMAIN CARDS :
              CARDS[j].name = nm =>
                  /\ XpOf(c) <= XpOf(CARDS[j])
                  /\ (j < i => XpOf(CARDS[j]) > XpOf(c))

\* C4: on a catalog holding the prints of a name, "Name (N)" returns
\* exactly the prints with xp = N, "Name (u)" / "Name (U)" exactly the
\* prints with xp > 0, and "Name" the first print of minimum xp alone
\* (an absent xp counting as 0).
C4_LevelFilter ==
    call_pc = "done" =>
        \A nm \in { CARDS[i].name : i \in DOMAIN CARDS } :
            PrintFamily(nm) =>
                /\ \A n \in 0..9 :
                      queries = << nm \o Suffix(<<DigitChars[n + 1]>>) >>
                          => matches = PrintsAtLevel(nm, n)
                /\ queries \in { << nm \o Suffix(<<"u">>) >>, << nm \o Suffix(<<"U">>) >> }
                      => matches = PrintsUpgraded(nm)
                /\ queries = << nm >>
                      => Len(matches) = 1 /\ IsLowestPrint(nm, matches[1])

\* "Lucky! (2)" resolved on prints at xp 3, absent and 2
C4_Witness ==
    /\ call_pc = "done"
    /\ queries = << NameLucky \o Suffix(<<"2">>) >>
    /\ { CARDS[i].xp : i \in DOMAIN CARDS } = {NoXp, 2, 3}
    /\ \A i \in DOMAIN CARDS : CARDS[i].name = NameLucky
    /\ Len(matches) = 1
    /\ matches[1].xp = 2

\* what find_matching_cards returns for the tokens before the last
MatchesBeforeLast ==
    find_matching_cards(SubSeq(queries, 1, Len(queries) - 1),
                        CARDS, NAME_INDEX, NAME_KEYS).matches

IsPrefix(a, b) == Len(a) <= Len(b) /\ a = SubSeq(b, 1, Len(a))

\* C5: the result holds each code at most once, and what the tokens before
\* the last resolve to is a prefix of the result: each token, in its turn
\* from left to right, appends its new codes and neither repeats nor moves
\* an earlier one.
C5_Dedup ==
    call_pc = "done" =>
        /\ \A i, j \in DOMAIN matches : i # j => matches[i].code # matches[j].code
        /\ queries # <<>> => IsPrefix(MatchesBeforeLast, matches)

\* "Lucky!" then "Lucky! (0)": the second token picks the first one's
\* record again, and one more
C5_Witness ==
    /\ call_pc = "done"
    /\ queries = << NameLucky, NameLucky \o Suffix(<<"0">>) >>
    /\ Len(matches) = 2
    /\ matches[1].code = "01"
    /\ matches[2].code = "05"

\* the token ends in a parenthesized suffix "(X)", from its last "(" to its
\* final ")", with X neither u/U nor an integer
InertParenthetical(q) ==
    LET s == Strip(q)
    IN  /\ Len(s) >= 2
        /\ s[Len(s)] = ")"
        /\ \E i \in 1..(Len(s) - 1) :
              /\ s[i] = "("
              /\ \A j \in (i + 1)..(Len(s) - 1) : s[j] # "("
              /\ LET x == Strip(SubSeq(s, i + 1, Len(s) - 1))
                 IN  Lower(x) # <<"u">> /\ ~IsIntLit(x)

\* the token parsed as one without qualifier: the whole trimmed,
\* lower-cased token is the base and there is no filter
WholeTokenParse(q) ==
    [search_term |-> Lower(Strip(q)), has_filter |-> FALSE, level |-> <<>>]

\* what the three stages pick for the token parsed so
UnqualifiedPicks(q) ==
    LET p == WholeTokenParse(q)
        exacts == Exacts(p, CARDS)
        subs == ByNameLowest(p, CARDS, <<>>)
    IN  IF exacts # <<>> THEN ExactPicks(p, exacts)
        ELSE IF subs # <<>> THEN DictValues(subs)
        ELSE FuzzyPicks(p, NAME_INDEX, NAME_KEYS)

\* C6 as claimed: a parenthetical that is no qualifier stays in the base,
\* no filter is built, and the token resolves as a token without qualifier
\* does (in the exact stage, to the minimum-xp print only).
C6_InertParenAsClaimed ==
    (call_pc = "done" /\ Len(queries) = 1 /\ InertParenthetical(queries[1])) =>
        /\ Parsed(queries[1]) = WholeTokenParse(queries[1])
        /\ matches = UnqualifiedPicks(queries[1])

\* ------------------------------------------------------------------------
\* Properties of the pagination (checked under SpecPage)
\* ------------------------------------------------------------------------
\* C7 as claimed: lines whose joined text is at most 3800 characters make
\* one section; a longer text makes at least two, and none of them has a
\* body longer than 1500 characters, whatever the lengths of the lines.
C7_Pagination ==
    call_pc = "done" =>
        /\ JoinLen(parts) <= SafetyThreshold => Len(sections) = 1
        /\ JoinLen(parts) > SafetyThreshold =>
              /\ Len(sections) >= 2
              /\ \A i \in DOMAIN sections : JoinLen(sections[i].lines) <= ChunkBudget

\* ------------------------------------------------------------------------
\* Properties of build_deck_embeds (checked under SpecDeck)
\* ------------------------------------------------------------------------
\* the cards of the deck: the records whose code is a key of slots
DeckCardIdx == { i \in DOMAIN CARDS : CARDS[i].code \in DOMAIN slots }

\* the card c has a line in embed e
ListedIn(c, e) ==
    \E k \in DOMAIN e.lines : e.lines[k].kind = "card" /\ e.lines[k].code = c.code

\* number of lines the card c has over all embeds
TimesListed(c) ==
    Cardinality({ <<j, k>> \in (DOMAIN deck_embeds) \X (1..20) :
                    /\ k \in DOMAIN deck_embeds[j].lines
                    /\ deck_embeds[j].lines[k].kind = "card"
                    /\ deck_embeds[j].lines[k].code = c.code })

CategoryPos(category) ==
    IF category = "Header" THEN 0
    ELSE CHOOSE i \in DOMAIN Categories : Categories[i] = category

\* C10: a deck card is listed at most once; under Permanent iff its
\* permanent flag is true, and otherwise under the category of its
\* type_code only (nowhere if its type_code is no category); the sections
\* follow the order Asset, Permanent, Event, Skill, Treachery, Enemy; and no
\* section is without a card.
C10_Partition ==
    call_pc = "done" =>
        /\ \A i \in DeckCardIdx :
              LET c == CARDS[i]
              IN  /\ TimesListed(c) <= 1
                  /\ \A j \in DOMAIN deck_embeds :
                        ListedIn(c, deck_embeds[j]) =>
                            IF c.permanent = "true"
                            THEN deck_embeds[j].category = "Permanent"
                            ELSE /\ deck_embeds[j].category # "Permanent"
                                 /\ deck_embeds[j].category # "Header"
                                 /\ CategoryLower(deck_embeds[j].category) = c.type_code
                  /\ c.permanent = "true" => TimesListed(c) = 1
                  /\ (c.permanent # "true"
                        /\ c.type_code \in {"asset", "event", "skill", "treachery", "enemy"})
                        => TimesListed(c) = 1
        /\ \A j \in DOMAIN deck_embeds :
              /\ j > 1 => \E i \in DeckCardIdx : ListedIn(CARDS[i], deck_embeds[j])
              /\ \A k \in DOMAIN deck_embeds :
                    j < k => CategoryPos(deck_embeds[j].category)
                               < CategoryPos(deck_embeds[k].category)

\* a deck of a plain asset, a permanent asset and an event: three sections,
\* no Skill section
C10_Witness ==
    /\ call_pc = "done"
    /\ DOMAIN slots = {"a1", "p1", "e1"}
    /\ [ j \in DOMAIN deck_embeds |-> deck_embeds[j].category ]
          = <<"Header", "Asset", "Permanent", "Event">>
    /\ \E i \in DeckCardIdx :
          CARDS[i].code = "p1" /\ ListedIn(CARDS[i], deck_embeds[3])

\* ------------------------------------------------------------------------
\* Properties of the bot (checked under Spec)
\* ------------------------------------------------------------------------
\* the indexes are those built from the record list
SnapshotConsistent ==
    /\ AllDicts(CARDS)
    /\ NAME_INDEX = _build_name_index(CARDS)
    /\ NAME_KEYS = DictKeys(NAME_INDEX)

\* C1 as claimed: whenever on_message can start a resolution pass, CARDS,
\* NAME_INDEX and NAME_KEYS belong to one snapshot.
C1_ReloadAtomic == msg_pc = "idle" => SnapshotConsistent

\* C2 as claimed: once a call of load_cards that ran with no other call in
\* flight has raised, CARDS, NAME_INDEX and NAME_KEYS are what they were
\* when it was entered.
C2_FailedReloadKeepsSnapshot ==
    (load_alone /\ load_outcome = "failed") => Snapshot = load_old

\* C8: a request whose tokens resolve to more than 8 matches sends the
\* "too many" reply and nothing else: no embeds, no thread, no deck fetch,
\* and the handler ends.
C8_TooManyRejected ==
    Len(matches) > 8 =>
        /\ msg_pc \in {"reply_too_many", "ended"}
        /\ msg_pc = "reply_too_many" => outbox = <<>>
        /\ msg_pc = "ended" =>
               /\ msg_end \in {"too_many", "raised"}
               /\ outbox = IF call_failed THEN <<>> ELSE << Reply("too_many") >>
        /\ thread = FALSE
        /\ slots = <<>>
        /\ deck_embeds = <<>>

\* nine matches and a deck link: the reply alone
C8_Witness ==
    /\ msg_pc = "ended"
    /\ Len(matches) = 9
    /\ deck_match
    /\ outbox = << Reply("too_many") >>

\* C9: when the deck of a request with 1 to 8 card matches fails to be
\* fetched or composed, and no reply or send of the request raises, the
\* request sends the "something went wrong" reply first, no deck embed, and
\* last all its card matches, in order.
C9_DeckFailureLocal ==
    (msg_pc = "ended" /\ deck_failed /\ ~call_failed
        /\ Len(matches) >= 1 /\ Len(matches) <= 8) =>
        /\ msg_end = "responded"
        /\ Len(outbox) >= 2
        /\ outbox[1] = Reply("deck_failed")
        /\ \A i \in DOMAIN outbox : outbox[i].what # "deck"
        /\ outbox[Len(outbox)].kind = "send"
        /\ outbox[Len(outbox)].what = "cards"
        /\ outbox[Len(outbox)].embeds = matches
        /\ Cardinality({ i \in DOMAIN outbox : outbox[i].what = "cards" }) = 1

\* a request with a deck link and eight matches whose deck failed: the
\* reply, a thread, the cards
C9_Witness ==
    /\ msg_pc = "ended"
    /\ deck_failed
    /\ ~call_failed
    /\ Len(matches) = 8
    /\ Len(outbox) = 3
    /\ outbox[1] = Reply("deck_failed")
    /\ outbox[3] = Send("thread", "cards", matches)

====
